---- MODULE Spec2Model ----
(***************************************************************************)
(* Alignment pipeline orchestration of warp-blueprints (openfold-protein): *)
(*   openfold-cpu/run_mmseq_pipeline.py   MMseqs2 + HHsearch producer      *)
(*   openfold-cpu/run_cpu_pipeline.py     JackHMMER + Kalign + HHsearch    *)
(*   openfold-gpu/run_gpu_inference.py    consumer (OpenFold inference)    *)
(*                                                                         *)
(* Text is a sequence of one-character strings, a file is its text.        *)
(***************************************************************************)
EXTENDS Integers, Sequences, FiniteSets, TLC

(***************************************************************************)
(* Bounds of the model.                                                    *)
(***************************************************************************)
\* longest input sequence file, in characters, of the exhaustive text checks
MaxLen == 6

(***************************************************************************)
(* Text helpers: str.strip, str.startswith, iteration over a text file.    *)
(***************************************************************************)
NL == "\n"

\* the characters input files are made of: record marker, blank, line end,
\* an upper-case and a lower-case residue letter
Alphabet == {">", " ", NL, "M", "k"}

\* the characters of the alphabet that str.strip() removes
Whitespace == {" ", NL}

RECURSIVE lstrip(_)
lstrip(s) ==
    IF s # <<>> /\ Head(s) \in Whitespace THEN lstrip(Tail(s)) ELSE s

RECURSIVE rstrip(_)
rstrip(s) ==
    IF s # <<>> /\ s[Len(s)] \in Whitespace
    THEN rstrip(SubSeq(s, 1, Len(s) - 1))
    ELSE s

strip(s) == rstrip(lstrip(s))

startswith(s, c) == s # <<>> /\ Head(s) = c

\* "for line in f": the lines of a text file, each with its line end; a last
\* piece without a line end is a line too, an empty file has no line
RECURSIVE file_lines(_, _, _)
file_lines(text, cur, acc) ==
    IF text = <<>>
    THEN IF cur = <<>> THEN acc ELSE Append(acc, cur)
    ELSE IF Head(text) = NL
         THEN file_lines(Tail(text), <<>>, Append(acc, Append(cur, NL)))
         ELSE file_lines(Tail(text), Append(cur, Head(text)), acc)

readlines(text) == file_lines(text, <<>>, <<>>)

RECURSIVE join(_)
join(parts) == IF parts = <<>> THEN <<>> ELSE Head(parts) \o join(Tail(parts))

\* the sentinel key "query"
QUERY == <<"q", "u", "e", "r", "y">>

(***************************************************************************)
(* run_mmseq_pipeline.py: FASTA helpers.                                   *)
(***************************************************************************)
RECURSIVE first_tag_scan(_)
first_tag_scan(lines) ==
    IF lines = <<>>
    THEN QUERY
    ELSE LET line == strip(Head(lines))
         IN  IF startswith(line, ">")
             THEN LET name == strip(Tail(line))
                  IN  IF name # <<>> THEN name ELSE QUERY
             ELSE first_tag_scan(Tail(lines))

\* a derivation that keeps the blanks after the record marker
RECURSIVE first_tag_scan_untrimmed(_)
first_tag_scan_untrimmed(lines) ==
    IF lines = <<>>
    THEN QUERY
    ELSE LET line == strip(Head(lines))
         IN  IF startswith(line, ">")
             THEN LET name == Tail(line)
                  IN  IF name # <<>> THEN name ELSE QUERY
             ELSE first_tag_scan_untrimmed(Tail(lines))

get_first_fasta_tag_untrimmed(text) == first_tag_scan_untrimmed(readlines(text))

\* get_first_fasta_tag, lines 36-47
get_first_fasta_tag(text) == first_tag_scan(readlines(text))

\* the "seq_lines" of write_trivial_a3m: every stripped line that is neither
\* empty nor a header, of the whole file
RECURSIVE seq_lines(_)
seq_lines(lines) ==
    IF lines = <<>>
    THEN <<>>
    ELSE LET line == strip(Head(lines))
         IN  IF line = <<>> \/ startswith(line, ">")
             THEN seq_lines(Tail(lines))
             ELSE <<line>> \o seq_lines(Tail(lines))

\* a fallback writer that leaves out the record marker of the header line
write_trivial_a3m_unmarked(text) ==
    LET seq_id == get_first_fasta_tag(text)
        seq    == join(seq_lines(readlines(text)))
    IN  seq_id \o <<NL>> \o seq \o <<NL>>

\* the text write_trivial_a3m writes to a3m_out for the input file "text"
write_trivial_a3m(text) ==
    LET seq_id == get_first_fasta_tag(text)
        seq    == join(seq_lines(readlines(text)))
    IN  <<">">> \o seq_id \o <<NL>> \o seq \o <<NL>>

(***************************************************************************)
(* run_gpu_inference.py: the consumer's own copy of the key derivation.    *)
(***************************************************************************)
RECURSIVE gpu_first_tag_scan(_)
gpu_first_tag_scan(lines) ==
    IF lines = <<>>
    THEN QUERY
    ELSE LET line == strip(Head(lines))
         IN  IF startswith(line, ">")
             THEN LET name == strip(Tail(line))
                  IN  IF name # <<>> THEN name ELSE QUERY
             ELSE gpu_first_tag_scan(Tail(lines))

\* a consumer that derives the key from the first line only
gpu_get_first_fasta_tag_first_line(text) ==
    LET lines == readlines(text)
    IN  gpu_first_tag_scan(IF lines = <<>> THEN <<>> ELSE <<Head(lines)>>)

\* get_first_fasta_tag, lines 80-92
gpu_get_first_fasta_tag(text) == gpu_first_tag_scan(readlines(text))

(***************************************************************************)
(* The world the three programs run in.                                    *)
(***************************************************************************)
\* --protein-id values: names under --fasta-root
Ids == {<<"M">>, <<"k">>}

\* input sequence files of the pipeline runs
SampleFastas ==
    { <<">", "M", NL, "M", "k">>,                          \* >M / Mk
      <<">", "M", NL, "M", NL, ">", "k", NL, "k", NL>>,    \* two records
      <<"M", "k", NL>>,                                    \* no header
      <<">", " ", "M", " ", NL, "M", " ", "k", NL>>,       \* blanks
      <<>> }                                               \* empty file

\* every file-name suffix an MMseqs database may have
Suffixes == {"", ".dbtype", ".index", ".lookup", "_h", "_h.dbtype",
             "_h.index", ".source"}
DbFiles(h) == {<<h, s>> : s \in Suffixes}

\* the directory of the reference database, and a directory apart from it
DB_DIR == "uniref50"
TMP_DIR == "tmp"

\* a .a3m file of the unpack directory: name 0 is "0.a3m"; prior tells
\* whether an earlier run wrote it
EXPORTED == <<">", "M", NL, "M", "k", NL, ">", "k", NL, "M", "-", NL>>
STALE    == <<">", "k", NL, "k", NL>>
NoDir == [exists |-> FALSE, files |-> {}]
StaleUnpack ==
    { NoDir,
      [exists |-> TRUE, files |-> {}],
      [exists |-> TRUE,
       files |-> {[name |-> 0, body |-> STALE, prior |-> TRUE]}] }

NoFile == [exists |-> FALSE, body |-> <<>>]
File(body) == [exists |-> TRUE, body |-> body]

\* exit statuses of an external process that ran: zero, or any nonzero one
Statuses == {"ok", "nonzero"}

NoPath == <<>>
path_join(root, name) == <<root, name>>
ALIGN_ROOT == "alignments_root"

VARIABLES
    \* inputs and files
    protein_id,     \* --protein-id
    tree,           \* what fasta_root / protein_id is: kind and files
    db,             \* the reference database path: exists, indexed
    tmp_dir,        \* --tmp-dir, the scratch directory
    scratch,        \* staging database files under tmp_dir
    unpack_dir,     \* tmp_dir / <name>_a3m_tmp
    root_exists,    \* the alignments root is a directory
    align_dirs,     \* the directories under the alignments root
    final_a3m,      \* <target_align_dir> / <protein_id>.a3m
    hhr_out,        \* <target_align_dir> / pdb70.hhr exists
    \* run_mmseq_pipeline.main
    pc,             \* position of the run
    tag,            \* tag_for_openfold
    target_align_dir,
    running,        \* the external process the run is blocked on
    calls,          \* external calls issued so far, in order
    outcome,        \* how each stage's call ended
    logs,           \* log lines written so far
    a3m_written,    \* how this run wrote final_a3m: "no", "trivial", "copy"
    failed_at,      \* the stage whose error ended the run
    \* run_gpu_inference.main
    gpu_pc, gpu_target_id, gpu_target_align_dir, gpu_failure,
    checkpoint,     \* --openfold-checkpoint-path is a file
    gpu_fasta_path, \* the file find_fasta_for_protein returned
    fasta_dirs,     \* files under /data/tmp/fasta_dirs: <<directory, name>>
    gpu_running,    \* the inference process is running
    gpu_calls,      \* inference processes started so far
    inference_requests_total, inference_failures_total, inference_inflight,
    \* run_cpu_pipeline.main
    jack_pc, protein_align_dir, jack_calls, jack_failed_at,
    jack_fasta_path, \* the file find_fasta_for_protein returned
    \* two invocations of run_mmseq_pipeline.main on one scratch directory
    inv_target,     \* per invocation: <<fasta root, protein id>>
    inv_pc,         \* per invocation: position in run_mmseqs
    writer          \* <<handle, invocation>>: whose data a staging database holds

env_vars  == <<protein_id, tree, db, tmp_dir>>
tmp_vars  == <<scratch, unpack_dir>>
out_vars  == <<final_a3m, hhr_out>>
dir_vars  == <<root_exists, align_dirs>>
cpu_vars  == <<pc, tag, target_align_dir, running, calls, outcome, logs,
               a3m_written, failed_at>>
gpu_vars  == <<gpu_pc, gpu_target_id, gpu_target_align_dir, gpu_failure,
               checkpoint, gpu_fasta_path, fasta_dirs, gpu_running, gpu_calls,
               inference_requests_total, inference_failures_total,
               inference_inflight>>
jack_vars == <<jack_pc, protein_align_dir, jack_calls, jack_failed_at,
               jack_fasta_path>>
pair_vars == <<inv_target, inv_pc, writer>>
vars == <<env_vars, tmp_vars, out_vars, dir_vars, cpu_vars, gpu_vars, jack_vars,
          pair_vars>>

Stages == {"dbtype", "rmdb_result", "rmdb_msa", "createdb", "search", "dbsize",
           "result2msa", "unpackdb", "hhsearch"}

\* fasta_root / protein_id as a file, a directory of files, or nothing
FileTree(id, text) ==
    [kind |-> "file", files |-> {[name |-> id, ext |-> "", body |-> text]}]
DirTree(files) == [kind |-> "dir", files |-> files]
Absent == [kind |-> "absent", files |-> {}]

\* no file chosen yet
NoEntry == [name |-> <<>>, ext |-> "", body |-> <<>>]

\* the text of fasta_path, once main has seen that it is a file
fasta == (CHOOSE f \in tree.files : TRUE).body

\* --uniref50-db: a database name without a kind, in the database directory
uniref_db == path_join(DB_DIR, <<<<"uniref50_mmseqs">>, "">>)

\* protein_name = fasta_path.name, line 138
protein_name == protein_id

\* the staging handles of run_mmseqs, lines 146-149: tmp_dir / f"{name}{kind}"
staging(dir, name, kind) == path_join(dir, <<name, kind>>)
query_db    == staging(tmp_dir, protein_name, "_queryDB")
result_db   == staging(tmp_dir, protein_name, "_resultDB")
msa_db      == staging(tmp_dir, protein_name, "_msaA3M_DB")
unpack_path == staging(tmp_dir, protein_name, "_a3m_tmp")

Handles == {query_db, result_db, msa_db}

\* scratch directories a run may start in: clean, or holding what an
\* earlier run with the same file name left behind
StaleScratch ==
    { {},
      DbFiles(query_db) \cup DbFiles(result_db) \cup DbFiles(msa_db),
      DbFiles(query_db) \cup DbFiles(result_db),
      {<<msa_db, ".source">>} }

(***************************************************************************)
(* run_mmseq_pipeline.py                                                   *)
(***************************************************************************)
\* subprocess.run(cmd, check=False): no status raises
run_cmd_unchecked(status) == FALSE

\* run_cmd, lines 24-29: subprocess.run(cmd, check=True) raises
\* CalledProcessError on a nonzero status
run_cmd_raises(status) == status = "nonzero"

call(cmd, args) == [cmd |-> cmd, args |-> args]

\* the process of a stage is started: it is logged and the run blocks on it
spawn(stage, cmd, args) ==
    /\ running' = stage
    /\ calls' = Append(calls, call(cmd, args))

\* the process the run is blocked on exits with a status
exits(stage, status) ==
    /\ running = stage
    /\ running' = "none"
    /\ outcome' = [outcome EXCEPT ![stage] = status]

\* an error that is recorded and then swallowed: the run goes on to its end
raise_swallowed(stage) == pc' = "done" /\ failed_at' = stage

\* an uncaught exception (or sys.exit(1)) ends the run
raise(stage) == pc' = "failed" /\ failed_at' = stage

log(lines) == logs' = logs \cup lines

\* main, lines 409-447, and the head of run_mmseqs, lines 134-151
main ==
    /\ pc = "main"
    /\ IF tree.kind # "file"
       THEN /\ log({"ERROR: FASTA file not found"})
            /\ raise("main")
            /\ UNCHANGED <<tag, target_align_dir, dir_vars>>
       ELSE /\ tag' = get_first_fasta_tag(fasta)
            /\ target_align_dir' = path_join(ALIGN_ROOT, tag')
            /\ root_exists' = TRUE
            /\ align_dirs' = align_dirs \cup {target_align_dir'}
            /\ log({"Derived OpenFold tag", "Starting CPU-only MMseqs2 pipeline"})
            /\ pc' = "dbtype"
            /\ UNCHANGED failed_at
    /\ UNCHANGED <<env_vars, pair_vars, tmp_vars, out_vars, gpu_vars, jack_vars,
                   running, calls, outcome, a3m_written>>

\* check_mmseqs_db, lines 87-90: the probe is started; only a probe that
\* cannot be started raises (OSError is not caught)
probe_spawn ==
    /\ pc = "dbtype"
    /\ running = "none"
    /\ log({"Checking MMseqs DB type"})
    /\ \E started \in BOOLEAN :
          IF started
          THEN /\ spawn("dbtype", "dbtype", <<uniref_db>>)
               /\ UNCHANGED <<pc, failed_at, outcome>>
          ELSE /\ calls' = Append(calls, call("dbtype", <<uniref_db>>))
               /\ outcome' = [outcome EXCEPT !["dbtype"] = "oserror"]
               /\ raise("dbtype")
               /\ UNCHANGED running
    /\ UNCHANGED <<env_vars, pair_vars, tmp_vars, out_vars, dir_vars, gpu_vars, jack_vars,
                   tag, target_align_dir, a3m_written>>

\* check_mmseqs_db, lines 90-93: the probe's output is logged, a nonzero
\* status is logged as a warning, and run_mmseqs goes on to line 161
probe_exit ==
    /\ pc = "dbtype"
    /\ \E status \in Statuses :
          /\ exits("dbtype", status)
          /\ IF status = "ok"
             THEN log({"MMseqs DB type"})
             ELSE log({"WARNING: mmseqs dbtype failed"})
    /\ pc' = "rmdb_result"
    /\ UNCHANGED <<env_vars, pair_vars, tmp_vars, out_vars, dir_vars, gpu_vars, jack_vars,
                   tag, target_align_dir, a3m_written, calls, failed_at>>

\* the Guard as the specification describes it: the path is checked first
check_mmseqs_db_exists_first ==
    \/ db.exists /\ (probe_spawn \/ probe_exit)
    \/ /\ ~db.exists
       /\ pc = "dbtype"
       /\ raise("MissingDatabase")
       /\ UNCHANGED <<env_vars, pair_vars, tmp_vars, out_vars, dir_vars, gpu_vars,
                      jack_vars, tag, target_align_dir, a3m_written, calls,
                      running, outcome, logs>>

\* a probe whose nonzero status is raised instead of logged
probe_exit_fatal ==
    /\ pc = "dbtype"
    /\ \E status \in Statuses :
          /\ exits("dbtype", status)
          /\ IF status = "ok"
             THEN /\ log({"MMseqs DB type"})
                  /\ pc' = "rmdb_result"
                  /\ UNCHANGED failed_at
             ELSE /\ log({"WARNING: mmseqs dbtype failed"})
                  /\ raise("dbtype")
    /\ UNCHANGED <<env_vars, pair_vars, tmp_vars, out_vars, dir_vars, gpu_vars, jack_vars,
                   tag, target_align_dir, a3m_written, calls>>

check_mmseqs_db_fatal == probe_spawn \/ probe_exit_fatal

\* a Guard that builds the index when the index files are missing
probe_exit_indexing ==
    /\ pc = "dbtype"
    /\ \E status \in Statuses :
          /\ exits("dbtype", status)
          /\ IF status = "ok"
             THEN log({"MMseqs DB type"})
             ELSE log({"WARNING: mmseqs dbtype failed"})
    /\ pc' = "rmdb_result"
    /\ calls' = IF db.indexed
                THEN calls
                ELSE Append(calls, call("createindex", <<uniref_db, tmp_dir>>))
    /\ UNCHANGED <<env_vars, pair_vars, tmp_vars, out_vars, dir_vars, gpu_vars, jack_vars,
                   tag, target_align_dir, a3m_written, failed_at>>

check_mmseqs_db_indexing == probe_spawn \/ probe_exit_indexing

\* check_mmseqs_db, lines 83-93, called at line 156
check_mmseqs_db == probe_spawn \/ probe_exit

\* the suffixes safe_rmdb looks for, line 101
RMDB_SUFFIXES == {"", ".dbtype", ".index", ".lookup", "_h", "_h.dbtype", "_h.index"}

existing(db_prefix) == {s \in RMDB_SUFFIXES : <<db_prefix, s>> \in scratch}

\* a reset whose failing rmdb ends the run
safe_rmdb_fatal(db_prefix, stage, next) ==
    /\ pc = stage
    /\ \/ /\ running = "none"
          /\ IF existing(db_prefix) # {}
             THEN /\ log({"Cleaning up existing MMseqs tmp DB"})
                  /\ spawn(stage, "rmdb", <<db_prefix>>)
                  /\ UNCHANGED pc
             ELSE /\ pc' = next
                  /\ UNCHANGED <<logs, running, calls>>
          /\ UNCHANGED <<outcome, scratch, failed_at>>
       \/ /\ \E status \in Statuses :
                /\ exits(stage, status)
                /\ IF run_cmd_raises(status)
                   THEN /\ log({"WARNING: mmseqs rmdb failed"})
                        /\ raise(stage)
                        /\ UNCHANGED scratch
                   ELSE /\ scratch' = scratch \ DbFiles(db_prefix)
                        /\ pc' = next
                        /\ UNCHANGED <<logs, failed_at>>
          /\ UNCHANGED calls
    /\ UNCHANGED <<env_vars, pair_vars, unpack_dir, out_vars, dir_vars, gpu_vars, jack_vars,
                   tag, target_align_dir, a3m_written>>

\* a reset that returns without looking for the files of the database
safe_rmdb_skipping(db_prefix, stage, next) ==
    /\ pc = stage
    /\ pc' = next
    /\ UNCHANGED <<env_vars, pair_vars, tmp_vars, out_vars, dir_vars, gpu_vars, jack_vars,
                   tag, target_align_dir, a3m_written, failed_at, logs,
                   running, calls, outcome>>

\* safe_rmdb, lines 96-111: rmdb is called when a file with one of the
\* suffixes exists; its failure is a warning
safe_rmdb(db_prefix, stage, next) ==
    /\ pc = stage
    /\ \/ /\ running = "none"
          /\ IF existing(db_prefix) # {}
             THEN /\ log({"Cleaning up existing MMseqs tmp DB"})
                  /\ spawn(stage, "rmdb", <<db_prefix>>)
                  /\ UNCHANGED pc
             ELSE /\ pc' = next
                  /\ UNCHANGED <<logs, running, calls>>
          /\ UNCHANGED <<outcome, scratch>>
       \/ /\ \E status \in Statuses :
                /\ exits(stage, status)
                /\ IF run_cmd_raises(status)
                   THEN /\ log({"WARNING: mmseqs rmdb failed"})
                        /\ UNCHANGED scratch
                   ELSE /\ scratch' = scratch \ DbFiles(db_prefix)
                        /\ UNCHANGED logs
          /\ pc' = next
          /\ UNCHANGED calls
    /\ UNCHANGED <<env_vars, pair_vars, unpack_dir, out_vars, dir_vars, gpu_vars, jack_vars,
                   tag, target_align_dir, a3m_written, failed_at>>

\* lines 161, 162
rm_result == safe_rmdb(result_db, "rmdb_result", "rmdb_msa")
rm_msa    == safe_rmdb(msa_db, "rmdb_msa", "rm_unpack")

\* lines 163-173: every unlink and the rmdir may fail, silently
rm_unpack ==
    /\ pc = "rm_unpack"
    /\ IF unpack_dir.exists
       THEN /\ log({"Removing old unpack dir"})
            /\ \E kept \in SUBSET unpack_dir.files, rmdir_ok \in BOOLEAN :
                  unpack_dir' = IF kept = {} /\ rmdir_ok
                                THEN NoDir
                                ELSE [exists |-> TRUE, files |-> kept]
       ELSE UNCHANGED <<logs, unpack_dir>>
    /\ pc' = "createdb"
    /\ UNCHANGED <<env_vars, pair_vars, scratch, out_vars, dir_vars, gpu_vars, jack_vars,
                   tag, target_align_dir, running, calls, outcome, a3m_written,
                   failed_at>>

\* the files a successful search or result2msa leaves for its output handle
ResultFiles(h) == {<<h, "">>, <<h, ".dbtype">>, <<h, ".index">>}

\* an Ingest that is started and not waited for
createdb_detached ==
    /\ pc = "createdb"
    /\ running = "none"
    /\ calls' = Append(calls, call("createdb", <<"fasta_path", query_db>>))
    /\ pc' = "search"
    /\ UNCHANGED <<env_vars, pair_vars, tmp_vars, out_vars, dir_vars, gpu_vars, jack_vars,
                   tag, target_align_dir, logs, a3m_written, running, outcome,
                   failed_at>>

\* lines 175-184: createdb, run_cmd with check=True, nothing catches
createdb ==
    /\ pc = "createdb"
    /\ \/ /\ running = "none"
          /\ spawn("createdb", "createdb", <<"fasta_path", query_db>>)
          /\ UNCHANGED <<pc, outcome, scratch, failed_at>>
       \/ /\ \E status \in Statuses :
                /\ exits("createdb", status)
                /\ IF run_cmd_raises(status)
                   THEN raise("createdb") /\ UNCHANGED scratch
                   ELSE /\ pc' = "search"
                        /\ scratch' = scratch \cup DbFiles(query_db)
                        /\ UNCHANGED failed_at
          /\ UNCHANGED calls
    /\ UNCHANGED <<env_vars, pair_vars, unpack_dir, out_vars, dir_vars, gpu_vars, jack_vars,
                   tag, target_align_dir, logs, a3m_written>>

\* lines 186-204: search, run_cmd with check=True, nothing catches
search ==
    /\ pc = "search"
    /\ \/ /\ running = "none"
          /\ spawn("search", "search",
                   <<query_db, uniref_db, result_db, tmp_dir>>)
          /\ log({"Running mmseqs search"})
          /\ UNCHANGED <<pc, outcome, scratch, failed_at>>
       \/ /\ \E status \in Statuses :
                /\ exits("search", status)
                /\ IF run_cmd_raises(status)
                   THEN raise("search") /\ UNCHANGED scratch
                   ELSE /\ pc' = "dbsize"
                        /\ scratch' = scratch \cup ResultFiles(result_db)
                        /\ UNCHANGED failed_at
          /\ UNCHANGED <<calls, logs>>
    /\ UNCHANGED <<env_vars, pair_vars, unpack_dir, out_vars, dir_vars, gpu_vars, jack_vars,
                   tag, target_align_dir, a3m_written>>

\* a size check whose failure takes the fallback
dbsize_degrading ==
    /\ pc = "dbsize"
    /\ \/ /\ running = "none"
          /\ spawn("dbsize", "dbsize", <<result_db>>)
          /\ log({"Inspecting Result DB size"})
          /\ UNCHANGED <<pc, outcome, final_a3m, a3m_written>>
       \/ /\ \E status \in Statuses :
                /\ exits("dbsize", status)
                /\ IF status = "ok"
                   THEN /\ log({"Result DB size info"})
                        /\ pc' = "result2msa"
                        /\ UNCHANGED <<final_a3m, a3m_written>>
                   ELSE /\ log({"WARNING: mmseqs dbsize failed",
                                 "Writing trivial single-sequence A3M"})
                        /\ final_a3m' = File(write_trivial_a3m(fasta))
                        /\ a3m_written' = "trivial"
                        /\ pc' = "hhsearch"
          /\ UNCHANGED calls
    /\ UNCHANGED <<env_vars, pair_vars, tmp_vars, hhr_out, dir_vars, gpu_vars, jack_vars,
                   tag, target_align_dir, failed_at>>

\* lines 206-218: dbsize on the result database, logged whatever its status
dbsize ==
    /\ pc = "dbsize"
    /\ \/ /\ running = "none"
          /\ spawn("dbsize", "dbsize", <<result_db>>)
          /\ log({"Inspecting Result DB size"})
          /\ UNCHANGED <<pc, outcome>>
       \/ /\ \E status \in Statuses :
                /\ exits("dbsize", status)
                /\ IF status = "ok"
                   THEN log({"Result DB size info"})
                   ELSE log({"WARNING: mmseqs dbsize failed"})
          /\ pc' = "result2msa"
          /\ UNCHANGED calls
    /\ UNCHANGED <<env_vars, pair_vars, tmp_vars, out_vars, dir_vars, gpu_vars, jack_vars,
                   tag, target_align_dir, a3m_written, failed_at>>

\* a fallback that returns final_a3m without writing it
fallback_unwritten(error) ==
    /\ log({error, "Writing trivial single-sequence A3M"})
    /\ UNCHANGED <<final_a3m, a3m_written>>

\* the fallback of run_mmseqs, lines 241-243, 262-264, 269-270, 275-276:
\* the error is logged and write_trivial_a3m(fasta_path, final_a3m) logs
\* (line 61) and writes the file
fallback(error) ==
    /\ log({error, "Writing trivial single-sequence A3M"})
    /\ final_a3m' = File(write_trivial_a3m(fasta))
    /\ a3m_written' = "trivial"

\* lines 220-237 and 239: result2msa is started
result2msa_spawn ==
    /\ pc = "result2msa"
    /\ running = "none"
    /\ spawn("result2msa", "result2msa",
             <<query_db, uniref_db, result_db, msa_db>>)
    /\ log({"Running mmseqs result2msa"})
    /\ UNCHANGED <<env_vars, pair_vars, unpack_dir, hhr_out, dir_vars, gpu_vars, jack_vars,
                   tag, target_align_dir, failed_at, pc, outcome, scratch,
                   final_a3m, a3m_written>>

\* a result2msa whose CalledProcessError nothing catches
result2msa_exit_uncaught ==
    /\ pc = "result2msa"
    /\ \E status \in Statuses :
          /\ exits("result2msa", status)
          /\ IF run_cmd_raises(status)
             THEN /\ fallback("ERROR in result2msa")
                  /\ raise("result2msa")
                  /\ UNCHANGED scratch
             ELSE /\ pc' = "unpackdb"
                  /\ scratch' = scratch \cup ResultFiles(msa_db)
                  /\ UNCHANGED <<logs, final_a3m, a3m_written, failed_at>>
    /\ UNCHANGED <<env_vars, pair_vars, unpack_dir, hhr_out, dir_vars, gpu_vars, jack_vars,
                   tag, target_align_dir, calls>>

\* lines 238-244: result2msa has exited; its CalledProcessError is caught
\* and the trivial A3M is returned
result2msa_exit ==
    /\ pc = "result2msa"
    /\ \E status \in Statuses :
          /\ exits("result2msa", status)
          /\ IF run_cmd_raises(status)
             THEN /\ fallback("ERROR in result2msa")
                  /\ pc' = "hhsearch"
                  /\ UNCHANGED scratch
             ELSE /\ pc' = "unpackdb"
                  /\ scratch' = scratch \cup ResultFiles(msa_db)
                  /\ UNCHANGED <<logs, final_a3m, a3m_written>>
    /\ UNCHANGED <<env_vars, pair_vars, unpack_dir, hhr_out, dir_vars, gpu_vars, jack_vars,
                   tag, target_align_dir, failed_at, calls>>

\* lines 220-244
result2msa == result2msa_spawn \/ result2msa_exit

\* what a successful unpackdb may leave of the unpack directory "d": the
\* entry 0.a3m written anew, nothing written, or not even the directory
unpacked(d) ==
    { [exists |-> TRUE,
       files |-> {f \in d.files : f.name # 0}
                 \cup {[name |-> 0, body |-> EXPORTED, prior |-> FALSE]}],
      [exists |-> TRUE, files |-> d.files],
      d }

\* sorted(unpack_dir.glob("*.a3m"))[0], line 273 and 279
first_a3m(d) == CHOOSE f \in d.files : \A g \in d.files : f.name <= g.name

\* lines 246-284: unpackdb, then the first .a3m of the unpack directory is
\* copied; a caught CalledProcessError, a missing directory and a directory
\* without .a3m file each end in the trivial A3M
unpackdb ==
    /\ pc = "unpackdb"
    /\ \/ /\ running = "none"
          /\ spawn("unpackdb", "unpackdb", <<msa_db, unpack_path>>)
          /\ log({"Running mmseqs unpackdb"})
          /\ UNCHANGED <<pc, outcome, unpack_dir, final_a3m, a3m_written>>
       \/ /\ \E status \in Statuses :
                /\ exits("unpackdb", status)
                /\ IF run_cmd_raises(status)
                   THEN /\ fallback("ERROR in unpackdb")
                        /\ UNCHANGED unpack_dir
                   ELSE \E d \in unpacked(unpack_dir) :
                        /\ unpack_dir' = d
                        /\ IF ~d.exists
                           THEN fallback("ERROR: unpack dir does not exist")
                           ELSE IF d.files = {}
                           THEN fallback("ERROR: no .a3m files found")
                           ELSE /\ log({"Using A3M file"})
                                /\ final_a3m' = File(first_a3m(d).body)
                                /\ a3m_written' = "copy"
          /\ pc' = "hhsearch"
          /\ UNCHANGED calls
    /\ UNCHANGED <<env_vars, pair_vars, scratch, hhr_out, dir_vars, gpu_vars, jack_vars,
                   tag, target_align_dir, failed_at>>

\* a template search whose failure is caught: the run ends as completed
hhsearch_caught ==
    /\ pc = "hhsearch"
    /\ \/ /\ running = "none"
          /\ \E started \in BOOLEAN :
                IF started
                THEN /\ spawn("hhsearch", "hhsearch",
                              <<"a3m_path", "hhr_out", "pdb70_db">>)
                     /\ UNCHANGED <<pc, failed_at, outcome>>
                ELSE /\ calls' = Append(calls, call("hhsearch",
                                 <<"a3m_path", "hhr_out", "pdb70_db">>))
                     /\ outcome' = [outcome EXCEPT !["hhsearch"] = "oserror"]
                     /\ raise_swallowed("hhsearch")
                     /\ UNCHANGED running
          /\ log({"Running HHsearch"})
          /\ UNCHANGED hhr_out
       \/ /\ \E status \in Statuses :
                /\ exits("hhsearch", status)
                /\ IF run_cmd_raises(status)
                   THEN raise_swallowed("hhsearch") /\ UNCHANGED <<logs, hhr_out>>
                   ELSE /\ pc' = "done"
                        /\ hhr_out' = TRUE
                        /\ log({"Pipeline completed."})
                        /\ UNCHANGED failed_at
          /\ UNCHANGED calls
    /\ UNCHANGED <<env_vars, pair_vars, tmp_vars, final_a3m, dir_vars, gpu_vars, jack_vars,
                   tag, target_align_dir, a3m_written>>

\* run_hhsearch, lines 291-308, called at line 464, and the end of main,
\* lines 471-474: nothing catches a failing hhsearch
hhsearch ==
    /\ pc = "hhsearch"
    /\ \/ /\ running = "none"
          /\ \E started \in BOOLEAN :
                IF started
                THEN /\ spawn("hhsearch", "hhsearch",
                              <<"a3m_path", "hhr_out", "pdb70_db">>)
                     /\ UNCHANGED <<pc, failed_at, outcome>>
                ELSE /\ calls' = Append(calls, call("hhsearch",
                                 <<"a3m_path", "hhr_out", "pdb70_db">>))
                     /\ outcome' = [outcome EXCEPT !["hhsearch"] = "oserror"]
                     /\ raise("hhsearch")
                     /\ UNCHANGED running
          /\ log({"Running HHsearch"})
          /\ UNCHANGED hhr_out
       \/ /\ \E status \in Statuses :
                /\ exits("hhsearch", status)
                /\ IF run_cmd_raises(status)
                   THEN raise("hhsearch") /\ UNCHANGED <<logs, hhr_out>>
                   ELSE /\ pc' = "done"
                        /\ hhr_out' = TRUE
                        /\ log({"Pipeline completed."})
                        /\ UNCHANGED failed_at
          /\ UNCHANGED calls
    /\ UNCHANGED <<env_vars, pair_vars, tmp_vars, final_a3m, dir_vars, gpu_vars, jack_vars,
                   tag, target_align_dir, a3m_written>>

(***************************************************************************)
(* run_gpu_inference.py                                                    *)
(***************************************************************************)
EXTENSIONS == <<"fasta", "fa", "faa">>

\* find_fasta_for_protein, lines 56-77: the files it may return (glob gives
\* the files of a directory in the order the file system lists them); no
\* file stands for FileNotFoundError
RECURSIVE gpu_first_glob(_, _)
gpu_first_glob(t, exts) ==
    IF exts = <<>>
    THEN {}
    ELSE LET files == {f \in t.files : f.ext = Head(exts)}
         IN  IF files # {} THEN files ELSE gpu_first_glob(t, Tail(exts))

gpu_find_fasta_for_protein(t) ==
    IF t.kind = "file" THEN t.files
    ELSE IF t.kind = "dir" THEN gpu_first_glob(t, EXTENSIONS)
    ELSE {}

gpu_raise(error) == gpu_pc' = "failed" /\ gpu_failure' = error

\* a request that failed before the inference was started, lines 220-221,
\* 231-232, 250-251, 276-277
gpu_count_failure ==
    /\ inference_requests_total' = inference_requests_total + 1
    /\ inference_failures_total' = inference_failures_total + 1

FASTA_DIRS == "fasta_dirs"

\* fasta_path.name: the name of a file with its extension
file_name(f) == <<f.name, f.ext>>

\* a consumer that goes on without the alignment directory
gpu_main_unchecked ==
    /\ gpu_pc = "main"
    /\ IF ~root_exists
       THEN /\ gpu_raise("alignments root not found")
            /\ gpu_count_failure
            /\ UNCHANGED <<gpu_target_id, gpu_target_align_dir, gpu_fasta_path>>
       ELSE IF gpu_find_fasta_for_protein(tree) = {}
       THEN /\ gpu_raise("NotFound")
            /\ gpu_count_failure
            /\ UNCHANGED <<gpu_target_id, gpu_target_align_dir, gpu_fasta_path>>
       ELSE \E fasta_path \in gpu_find_fasta_for_protein(tree) :
            /\ gpu_fasta_path' = fasta_path
            /\ gpu_target_id' = gpu_get_first_fasta_tag(fasta_path.body)
            /\ gpu_target_align_dir' = path_join(ALIGN_ROOT, gpu_target_id')
            /\ gpu_pc' = "prepare"
            /\ UNCHANGED <<gpu_failure, inference_requests_total,
                           inference_failures_total>>
    /\ UNCHANGED <<env_vars, pair_vars, tmp_vars, out_vars, dir_vars, cpu_vars, jack_vars,
                   checkpoint, fasta_dirs, gpu_running, gpu_calls,
                   inference_inflight>>

\* main, lines 204-252: up to the check of the alignment directory
gpu_main ==
    /\ gpu_pc = "main"
    /\ IF ~root_exists
       THEN /\ gpu_raise("alignments root not found")
            /\ gpu_count_failure
            /\ UNCHANGED <<gpu_target_id, gpu_target_align_dir, gpu_fasta_path>>
       ELSE IF gpu_find_fasta_for_protein(tree) = {}
       THEN /\ gpu_raise("NotFound")
            /\ gpu_count_failure
            /\ UNCHANGED <<gpu_target_id, gpu_target_align_dir, gpu_fasta_path>>
       ELSE \E fasta_path \in gpu_find_fasta_for_protein(tree) :
            /\ gpu_fasta_path' = fasta_path
            /\ gpu_target_id' = gpu_get_first_fasta_tag(fasta_path.body)
            /\ gpu_target_align_dir' = path_join(ALIGN_ROOT, gpu_target_id')
            /\ IF gpu_target_align_dir' \notin align_dirs
               THEN /\ gpu_raise("MissingAlignments")
                    /\ gpu_count_failure
               ELSE /\ gpu_pc' = "prepare"
                    /\ UNCHANGED <<gpu_failure, inference_requests_total,
                                   inference_failures_total>>
    /\ UNCHANGED <<env_vars, pair_vars, tmp_vars, out_vars, dir_vars, cpu_vars, jack_vars,
                   checkpoint, fasta_dirs, gpu_running, gpu_calls,
                   inference_inflight>>

\* main, lines 254-267: the per-protein FASTA directory is made and the
\* input file is linked (or, when the link fails, copied) into it under its
\* own name, unless a file of that name is there already
gpu_prepare ==
    /\ gpu_pc = "prepare"
    /\ fasta_dirs' = fasta_dirs \cup
          {<<path_join(FASTA_DIRS, gpu_target_id), file_name(gpu_fasta_path)>>}
    /\ gpu_pc' = "checkpoint"
    /\ UNCHANGED <<env_vars, pair_vars, tmp_vars, out_vars, dir_vars, cpu_vars, jack_vars,
                   gpu_target_id, gpu_target_align_dir, gpu_failure, checkpoint,
                   gpu_fasta_path, gpu_running, gpu_calls,
                   inference_requests_total, inference_failures_total,
                   inference_inflight>>

\* main, lines 269-280: the checkpoint must be a file
gpu_checkpoint ==
    /\ gpu_pc = "checkpoint"
    /\ IF ~checkpoint
       THEN /\ gpu_raise("checkpoint not found")
            /\ gpu_count_failure
       ELSE /\ gpu_pc' = "inference"
            /\ UNCHANGED <<gpu_failure, inference_requests_total,
                           inference_failures_total>>
    /\ UNCHANGED <<env_vars, pair_vars, tmp_vars, out_vars, dir_vars, cpu_vars, jack_vars,
                   gpu_target_id, gpu_target_align_dir, checkpoint,
                   gpu_fasta_path, fasta_dirs, gpu_running, gpu_calls,
                   inference_inflight>>

\* main, lines 305-327: the request is counted, the gauge is raised and
\* run_pretrained_openfold.py is started on the per-protein directory and
\* the alignments root; an OSError of subprocess.run is not caught
gpu_inference_spawn ==
    /\ gpu_pc = "inference"
    /\ ~gpu_running
    /\ inference_requests_total' = inference_requests_total + 1
    /\ inference_inflight' = inference_inflight + 1
    /\ gpu_calls' = Append(gpu_calls,
          call("run_pretrained_openfold",
               <<path_join(FASTA_DIRS, gpu_target_id), ALIGN_ROOT>>))
    /\ \E started \in BOOLEAN :
          IF started
          THEN gpu_running' = TRUE /\ UNCHANGED <<gpu_pc, gpu_failure>>
          ELSE gpu_raise("OSError") /\ UNCHANGED gpu_running
    /\ UNCHANGED <<env_vars, pair_vars, tmp_vars, out_vars, dir_vars, cpu_vars, jack_vars,
                   gpu_target_id, gpu_target_align_dir, checkpoint,
                   gpu_fasta_path, fasta_dirs, inference_failures_total>>

\* main, lines 326-340: the inference process has exited
gpu_inference_exit ==
    /\ gpu_pc = "inference"
    /\ gpu_running
    /\ gpu_running' = FALSE
    /\ inference_inflight' = inference_inflight - 1
    /\ \E status \in Statuses :
          IF status = "nonzero"
          THEN /\ inference_failures_total' = inference_failures_total + 1
               /\ gpu_raise("inference failed")
          ELSE /\ gpu_pc' = "done"
               /\ UNCHANGED <<gpu_failure, inference_failures_total>>
    /\ UNCHANGED <<env_vars, pair_vars, tmp_vars, out_vars, dir_vars, cpu_vars, jack_vars,
                   gpu_target_id, gpu_target_align_dir, checkpoint,
                   gpu_fasta_path, fasta_dirs, gpu_calls,
                   inference_requests_total>>

gpu_inference == gpu_inference_spawn \/ gpu_inference_exit

(***************************************************************************)
(* run_cpu_pipeline.py                                                     *)
(***************************************************************************)
\* find_fasta_for_protein, lines 15-34
RECURSIVE first_glob(_, _)
first_glob(t, exts) ==
    IF exts = <<>>
    THEN {}
    ELSE LET files == {f \in t.files : f.ext = Head(exts)}
         IN  IF files # {} THEN files ELSE first_glob(t, Tail(exts))

\* a resolver without the priority order: any file of a listed extension
find_fasta_any_tier(t) ==
    IF t.kind = "file" THEN t.files
    ELSE IF t.kind = "dir"
    THEN {f \in t.files : \E i \in DOMAIN EXTENSIONS : f.ext = EXTENSIONS[i]}
    ELSE {}

find_fasta_for_protein(t) ==
    IF t.kind = "file" THEN t.files
    ELSE IF t.kind = "dir" THEN first_glob(t, EXTENSIONS)
    ELSE {}

jack_raise(stage) == jack_pc' = "failed" /\ jack_failed_at' = stage

\* main, lines 147-163: the alignment directory is named by the identifier
jack_main ==
    /\ jack_pc = "main"
    /\ protein_align_dir' = path_join(ALIGN_ROOT, protein_id)
    /\ IF find_fasta_for_protein(tree) = {}
       THEN /\ jack_raise("find_fasta_for_protein")
            /\ UNCHANGED jack_fasta_path
       ELSE \E fasta_path \in find_fasta_for_protein(tree) :
            /\ jack_fasta_path' = fasta_path
            /\ jack_pc' = "jackhmmer"
            /\ UNCHANGED jack_failed_at
    /\ UNCHANGED <<env_vars, pair_vars, tmp_vars, out_vars, dir_vars, cpu_vars, gpu_vars,
                   jack_calls>>

\* one subprocess.run(cmd, check=True) of the chain, lines 165-168 and 175-177
jack_stage(stage, next) ==
    /\ jack_pc = stage
    /\ jack_calls' = Append(jack_calls, stage)
    /\ \E status \in Statuses :
          IF run_cmd_raises(status)
          THEN jack_raise(stage)
          ELSE jack_pc' = next /\ UNCHANGED jack_failed_at
    /\ UNCHANGED <<protein_align_dir, jack_fasta_path>>

\* run_jackhmmer, lines 37-57: out_dir is made before the call
jack_jackhmmer ==
    /\ jack_stage("jackhmmer", "kalign")
    /\ root_exists' = TRUE
    /\ align_dirs' = align_dirs \cup {protein_align_dir}
    /\ UNCHANGED <<env_vars, pair_vars, tmp_vars, out_vars, cpu_vars, gpu_vars>>

\* run_kalign, lines 60-74
jack_kalign ==
    /\ jack_stage("kalign", "hhsearch")
    /\ UNCHANGED <<env_vars, pair_vars, tmp_vars, out_vars, dir_vars, cpu_vars, gpu_vars>>

\* run_hhsearch, lines 77-90
jack_hhsearch ==
    /\ jack_stage("hhsearch", "done")
    /\ UNCHANGED <<env_vars, pair_vars, tmp_vars, out_vars, dir_vars, cpu_vars, gpu_vars>>

(***************************************************************************)
(* run_mmseq_pipeline.py: two invocations that share the scratch           *)
(* directory, each followed through the staging databases it removes,      *)
(* writes and reads.                                                       *)
(***************************************************************************)
Invocations == {1, 2}

\* the values of --fasta-root
FASTA_ROOTS == {"fasta_root", "fasta_root2"}

\* protein_name of an invocation: the name of fasta_root / protein_id
inv_name(p) == inv_target[p][2]

inv_query_db(p)  == staging(tmp_dir, inv_name(p), "_queryDB")
inv_result_db(p) == staging(tmp_dir, inv_name(p), "_resultDB")
inv_msa_db(p)    == staging(tmp_dir, inv_name(p), "_msaA3M_DB")

inv_unchanged ==
    UNCHANGED <<env_vars, unpack_dir, out_vars, dir_vars, cpu_vars, gpu_vars,
                jack_vars, inv_target>>

\* a stage of invocation p that writes the database "out": it ends the
\* invocation when it fails (next is "done" for a stage with a fallback)
inv_stage(p, stage, out, next, on_failure) ==
    /\ inv_pc[p] = stage
    /\ \E status \in Statuses :
          IF run_cmd_raises(status)
          THEN /\ inv_pc' = [inv_pc EXCEPT ![p] = on_failure]
               /\ UNCHANGED <<scratch, writer>>
          ELSE /\ inv_pc' = [inv_pc EXCEPT ![p] = next]
               /\ scratch' = scratch \cup ResultFiles(out)
               /\ writer' = {w \in writer : w[1] # out} \cup {<<out, p>>}
    /\ inv_unchanged

\* safe_rmdb of invocation p, lines 96-111
inv_rmdb(p, db_prefix, stage, next) ==
    /\ inv_pc[p] = stage
    /\ inv_pc' = [inv_pc EXCEPT ![p] = next]
    /\ IF existing(db_prefix) # {}
       THEN \E status \in Statuses :
               IF run_cmd_raises(status)
               THEN UNCHANGED <<scratch, writer>>
               ELSE /\ scratch' = scratch \ DbFiles(db_prefix)
                    /\ writer' = {w \in writer : w[1] # db_prefix}
       ELSE UNCHANGED <<scratch, writer>>
    /\ inv_unchanged

\* lines 161, 162
inv_rm_result(p) == inv_rmdb(p, inv_result_db(p), "rmdb_result", "rmdb_msa")
inv_rm_msa(p)    == inv_rmdb(p, inv_msa_db(p), "rmdb_msa", "createdb")

\* lines 175-184, 186-204, 220-244, 246-265
inv_createdb(p)   == inv_stage(p, "createdb", inv_query_db(p), "search", "failed")
inv_search(p)     == inv_stage(p, "search", inv_result_db(p), "result2msa", "failed")
inv_result2msa(p) == inv_stage(p, "result2msa", inv_msa_db(p), "unpackdb", "done")

inv_unpackdb(p) ==
    /\ inv_pc[p] = "unpackdb"
    /\ inv_pc' = [inv_pc EXCEPT ![p] = "done"]
    /\ UNCHANGED <<scratch, writer>>
    /\ inv_unchanged

(***************************************************************************)
(* Specifications.                                                         *)
(***************************************************************************)
CpuIdle ==
    /\ pc = "main" /\ tag = <<>> /\ target_align_dir = NoPath
    /\ running = "none" /\ calls = <<>>
    /\ outcome = [s \in Stages |-> "none"]
    /\ logs = {} /\ a3m_written = "no" /\ failed_at = "none"

GpuIdle ==
    /\ gpu_pc = "main" /\ gpu_target_id = <<>>
    /\ gpu_target_align_dir = NoPath /\ gpu_failure = "none"
    /\ gpu_fasta_path = NoEntry /\ fasta_dirs = {}
    /\ gpu_running = FALSE /\ gpu_calls = <<>>
    /\ inference_requests_total = 0 /\ inference_failures_total = 0
    /\ inference_inflight = 0

JackIdle ==
    /\ jack_pc = "main" /\ protein_align_dir = NoPath
    /\ jack_calls = <<>> /\ jack_failed_at = "none"
    /\ jack_fasta_path = NoEntry

PairIdle ==
    /\ inv_target = [p \in Invocations |-> <<"fasta_root", protein_id>>]
    /\ inv_pc = [p \in Invocations |-> "idle"]
    /\ writer = {}

NoOutput == final_a3m = NoFile /\ hhr_out = FALSE /\ PairIdle

DbStates == {[exists |-> FALSE, indexed |-> FALSE],
             [exists |-> TRUE, indexed |-> FALSE],
             [exists |-> TRUE, indexed |-> TRUE]}

\* one run of the MMseqs2 producer, from any scratch directory
Init ==
    /\ protein_id \in Ids
    /\ tmp_dir \in {TMP_DIR, DB_DIR}
    /\ tree \in {FileTree(protein_id, text) : text \in SampleFastas} \cup {Absent}
    /\ db \in DbStates
    /\ scratch \in StaleScratch
    /\ unpack_dir \in StaleUnpack
    /\ root_exists \in BOOLEAN /\ align_dirs = {}
    /\ checkpoint = TRUE
    /\ NoOutput /\ CpuIdle /\ GpuIdle /\ JackIdle

Next ==
    \/ main
    \/ check_mmseqs_db
    \/ rm_result
    \/ rm_msa
    \/ rm_unpack
    \/ createdb
    \/ search
    \/ dbsize
    \/ result2msa
    \/ unpackdb
    \/ hhsearch

Spec == Init /\ [][Next]_vars

\* the key derivations of the producer and of the consumer and the fallback
\* writer, on every text of at most MaxLen characters
Texts == UNION {[1..n -> Alphabet] : n \in 0..MaxLen}

InitKey ==
    /\ protein_id = <<"M">>
    /\ tmp_dir = TMP_DIR
    /\ tree \in {FileTree(protein_id, text) : text \in Texts}
    /\ db = [exists |-> TRUE, indexed |-> TRUE]
    /\ scratch = {} /\ unpack_dir = NoDir
    /\ root_exists = TRUE /\ align_dirs = {}
    /\ checkpoint = TRUE
    /\ NoOutput /\ CpuIdle /\ GpuIdle /\ JackIdle

\* write_trivial_a3m(fasta_path, a3m_out) on the input file
trivial_a3m ==
    /\ a3m_written = "no"
    /\ fallback("ERROR in result2msa")
    /\ UNCHANGED <<env_vars, pair_vars, tmp_vars, hhr_out, dir_vars, gpu_vars, jack_vars,
                   pc, tag, target_align_dir, running, calls, outcome,
                   failed_at>>

NextKey == main \/ gpu_main \/ trivial_a3m

SpecKey == InitKey /\ [][NextKey]_vars

\* both producers on the same input, with a clean scratch directory
InitTemplate ==
    /\ protein_id \in Ids
    /\ tmp_dir = TMP_DIR
    /\ tree \in {FileTree(protein_id, text) : text \in SampleFastas} \cup {Absent}
    /\ db = [exists |-> TRUE, indexed |-> TRUE]
    /\ scratch = {} /\ unpack_dir \in StaleUnpack
    /\ root_exists \in BOOLEAN /\ align_dirs = {}
    /\ checkpoint = TRUE
    /\ NoOutput /\ CpuIdle /\ GpuIdle /\ JackIdle

NextTemplate ==
    \/ Next
    \/ jack_main
    \/ jack_jackhmmer
    \/ jack_kalign
    \/ jack_hhsearch

SpecTemplate == InitTemplate /\ [][NextTemplate]_vars

\* a run of the MMseqs2 producer and, once it has ended, the consumer on
\* the same input
consumer_after_producer ==
    /\ pc \in {"done", "failed"}
    /\ (gpu_main \/ gpu_prepare \/ gpu_checkpoint \/ gpu_inference)

NextHandoff ==
    \/ Next
    \/ consumer_after_producer

SpecHandoff == InitTemplate /\ [][NextHandoff]_vars

\* a run of the MMseqs2 producer that goes on as long as a step is enabled:
\* the program is sequential and every external process exits
SpecLive == InitTemplate /\ [][Next]_vars /\ WF_vars(Next)

\* the JackHMMER producer and the consumer, on the same identifier
\* directories fasta_root / protein_id: one file of any extension, two
\* files of the first extension beside one of the second, and files of the
\* second and third extension beside one that no pattern matches
SampleDirs ==
    { DirTree({[name |-> <<"M">>, ext |-> e, body |-> text]})
        : e \in {"fasta", "faa", "txt"}, text \in SampleFastas }
    \cup
    { DirTree({[name |-> <<"M">>, ext |-> "fasta", body |-> <<">", "M", NL, "M", "k">>],
               [name |-> <<"k">>, ext |-> "fasta", body |-> <<">", "k", NL, "k">>],
               [name |-> <<"M">>, ext |-> "fa", body |-> <<">", "M", NL, "M">>]}),
      DirTree({[name |-> <<"M">>, ext |-> "faa", body |-> <<">", "M", NL, "M", "k">>],
               [name |-> <<"M">>, ext |-> "fa", body |-> <<">", "k", NL, "k">>],
               [name |-> <<"M">>, ext |-> "txt", body |-> <<">", "M", NL, "M">>]}) }

InitJack ==
    /\ protein_id \in Ids
    /\ tmp_dir = TMP_DIR
    /\ tree \in {FileTree(protein_id, text) : text \in SampleFastas}
                \cup SampleDirs \cup {Absent}
    /\ db = [exists |-> TRUE, indexed |-> TRUE]
    /\ scratch = {} /\ unpack_dir = NoDir
    /\ root_exists \in BOOLEAN /\ align_dirs = {}
    /\ checkpoint \in BOOLEAN
    /\ NoOutput /\ CpuIdle /\ GpuIdle /\ JackIdle

NextJack ==
    \/ jack_main
    \/ jack_jackhmmer
    \/ jack_kalign
    \/ jack_hhsearch
    \/ gpu_main
    \/ gpu_prepare
    \/ gpu_checkpoint
    \/ gpu_inference

SpecJack == InitJack /\ [][NextJack]_vars

\* what earlier invocations of the consumer may have left under
\* /data/tmp/fasta_dirs: nothing, or the file of one earlier request
EarlierFastaDirs ==
    {{}} \cup
    { {<<path_join(FASTA_DIRS, id), <<name, "fasta">>>>} : id \in Ids, name \in Ids }

\* the JackHMMER producer and one more invocation of the consumer
InitRequests ==
    /\ protein_id \in Ids
    /\ tmp_dir = TMP_DIR
    /\ tree \in {FileTree(protein_id, text) : text \in SampleFastas}
                \cup SampleDirs \cup {Absent}
    /\ db = [exists |-> TRUE, indexed |-> TRUE]
    /\ scratch = {} /\ unpack_dir = NoDir
    /\ root_exists \in BOOLEAN /\ align_dirs = {}
    /\ checkpoint \in BOOLEAN
    /\ NoOutput /\ CpuIdle /\ JackIdle
    /\ gpu_pc = "main" /\ gpu_target_id = <<>>
    /\ gpu_target_align_dir = NoPath /\ gpu_failure = "none"
    /\ gpu_fasta_path = NoEntry
    /\ fasta_dirs \in EarlierFastaDirs
    /\ gpu_running = FALSE /\ gpu_calls = <<>>
    /\ inference_requests_total = 0 /\ inference_failures_total = 0
    /\ inference_inflight = 0

SpecRequests == InitRequests /\ [][NextJack]_vars

\* two invocations on different targets and the same scratch directory
InitPair ==
    /\ protein_id = <<"M">>
    /\ tmp_dir = TMP_DIR
    /\ tree = FileTree(protein_id, <<>>)
    /\ db = [exists |-> TRUE, indexed |-> TRUE]
    /\ scratch = {} /\ unpack_dir = NoDir
    /\ root_exists = TRUE /\ align_dirs = {}
    /\ checkpoint = TRUE
    /\ final_a3m = NoFile /\ hhr_out = FALSE
    /\ CpuIdle /\ GpuIdle /\ JackIdle
    /\ inv_target \in [Invocations -> FASTA_ROOTS \X Ids]
    /\ inv_target[1] # inv_target[2]
    /\ inv_pc = [p \in Invocations |-> "rmdb_result"]
    /\ writer = {}

NextPair ==
    \E p \in Invocations :
        \/ inv_rm_result(p)
        \/ inv_rm_msa(p)
        \/ inv_createdb(p)
        \/ inv_search(p)
        \/ inv_result2msa(p)
        \/ inv_unpackdb(p)

SpecPair == InitPair /\ [][NextPair]_vars

(***************************************************************************)
(* What the specification says of a sequence file, stated on the text      *)
(* itself: its first header, the text X after the record marker, the       *)
(* sequence of its first record.                                           *)
(***************************************************************************)
\* position h holds a record marker that only blanks precede on its line
IsHeaderAt(text, h) ==
    /\ text[h] = ">"
    /\ \E p \in 1..h :
          /\ (p = 1 \/ text[p - 1] = NL)
          /\ \A j \in p..(h - 1) : text[j] = " "

HeaderPositions(text) == {h \in 1..Len(text) : IsHeaderAt(text, h)}

HasHeader(text) == HeaderPositions(text) # {}

FirstHeader(text) ==
    CHOOSE h \in HeaderPositions(text) : \A g \in HeaderPositions(text) : h <= g

\* the last position of the line that position h is on, line end excluded
LineEnd(text, h) ==
    CHOOSE e \in h..Len(text) :
        /\ \A j \in h..e : text[j] # NL
        /\ (e = Len(text) \/ text[e + 1] = NL)

\* the X of the first header ">X"
HeaderX(text) ==
    SubSeq(text, FirstHeader(text) + 1, LineEnd(text, FirstHeader(text)))

\* t is x with its surrounding whitespace removed
IsTrimOf(t, x) ==
    \E i \in 1..(Len(x) + 1), j \in 0..Len(x) :
        /\ t = SubSeq(x, i, j)
        /\ \A k \in 1..(i - 1) : x[k] \in Whitespace
        /\ \A k \in (j + 1)..Len(x) : x[k] \in Whitespace
        /\ t # <<>> => (t[1] \notin Whitespace /\ t[Len(t)] \notin Whitespace)

\* the text between the first header line and the next header
FirstRecordBody(text) ==
    LET h1   == FirstHeader(text)
        rest == {h \in HeaderPositions(text) : h > h1}
        stop == IF rest = {}
                THEN Len(text) + 1
                ELSE CHOOSE h \in rest : \A g \in rest : h <= g
    IN  SubSeq(text, LineEnd(text, h1) + 2, stop - 1)

RECURSIVE stripped(_)
stripped(lines) ==
    IF lines = <<>> THEN <<>> ELSE <<strip(Head(lines))>> \o stripped(Tail(lines))

\* the one record an artifact made of the first record of "text" holds
FirstRecordA3m(text) ==
    <<">">> \o strip(HeaderX(text)) \o <<NL>>
        \o join(stripped(readlines(FirstRecordBody(text)))) \o <<NL>>

\* an alignment file of exactly one record: a header line, a sequence line
OneRecord(body) ==
    LET ls == readlines(body)
    IN  Len(ls) = 2 /\ startswith(ls[1], ">") /\ ~startswith(ls[2], ">")

Called(cmd) == \E i \in DOMAIN calls : calls[i].cmd = cmd

CallCount(cmd) == Cardinality({i \in DOMAIN calls : calls[i].cmd = cmd})

\* a directory or a bare file, as a path of the shape of a database path
Whole(dir) == path_join(dir, <<<<>>, "">>)

\* the arguments an MMseqs2 call writes or removes
Mutated(c) ==
    IF c.cmd = "rmdb" THEN {c.args[1]}
    ELSE IF c.cmd = "createdb" THEN {c.args[2]}
    ELSE IF c.cmd = "search" THEN {c.args[3], Whole(c.args[4])}
    ELSE IF c.cmd = "result2msa" THEN {c.args[4]}
    ELSE IF c.cmd = "unpackdb" THEN {c.args[2]}
    ELSE IF c.cmd = "createindex" THEN {c.args[1], Whole(c.args[2])}
    ELSE IF c.cmd = "hhsearch" THEN {Whole(c.args[2])}
    ELSE {}

Ended == pc \in {"done", "failed"}

(***************************************************************************)
(* Claims.                                                                 *)
(***************************************************************************)
\* C1: for every input sequence file the MMseqs producer and the consumer
\* derive the same key and so the same directory alignments_root / key: the
\* directory the producer made and writes into is the one the consumer checks.
C1_SameArtifactDir ==
    /\ (pc # "main" /\ gpu_pc # "main") =>
          /\ tag = gpu_target_id
          /\ target_align_dir = gpu_target_align_dir
    /\ pc # "main" => target_align_dir \in align_dirs
    /\ gpu_pc = "prepare" => gpu_target_align_dir = target_align_dir

C1_Witness ==
    /\ gpu_pc = "prepare"
    /\ pc # "main"
    /\ tag # QUERY
    /\ Head(fasta) # ">"

\* C2: the JackHMMER producer writes under the directory the consumer then
\* checks, for any identifier and any header.
C2_JackSameDir ==
    (jack_pc # "main" /\ gpu_target_align_dir # NoPath) =>
        protein_align_dir = gpu_target_align_dir

\* C3 as claimed: the key is X trimmed for every file whose first header is
\* ">X", and the sentinel for a file without header.
KeyAsClaimed(key, text) ==
    IF HasHeader(text) THEN IsTrimOf(key, HeaderX(text)) ELSE key = QUERY

C3_Original ==
    /\ pc # "main" => KeyAsClaimed(tag, fasta)
    /\ gpu_pc # "main" => KeyAsClaimed(gpu_target_id, fasta)

\* C3 as amended: the key is X trimmed when the first header is ">X" and X
\* is not blank; it is the sentinel when the file has no header line, is
\* empty, or has only blanks after the marker of its first header.
KeyAsCoded(key, text) ==
    IF HasHeader(text) /\ ~IsTrimOf(<<>>, HeaderX(text))
    THEN IsTrimOf(key, HeaderX(text))
    ELSE key = QUERY

C3_KeyIsTrimmedHeader ==
    /\ pc # "main" => KeyAsCoded(tag, fasta)
    /\ gpu_pc # "main" => KeyAsCoded(gpu_target_id, fasta)

C3_Witness ==
    /\ pc # "main"
    /\ gpu_pc # "main"
    /\ HasHeader(fasta)
    /\ tag # QUERY
    /\ Len(tag) + 2 <= Len(HeaderX(fasta))

\* C4: when createdb or search exits nonzero, no later stage is invoked, this
\* run writes no alignment artifact, and the run ends in failure.
C4_IngestSearchFatal ==
    \A s \in {"createdb", "search"} :
        outcome[s] = "nonzero" =>
            /\ pc = "failed" /\ failed_at = s
            /\ ~Called("result2msa") /\ ~Called("unpackdb") /\ ~Called("hhsearch")
            /\ s = "createdb" => ~Called("search")
            /\ a3m_written = "no" /\ final_a3m = NoFile

C4_Witness ==
    /\ outcome["createdb"] = "ok"
    /\ outcome["search"] = "nonzero"
    /\ pc = "failed"

\* C5: when search succeeds and result2msa fails, the artifact holds exactly
\* one record, whose header is the input's first header and whose sequence is
\* that record's sequence, for every input.
C5_FallbackIsFirstRecord ==
    (outcome["search"] = "ok" /\ outcome["result2msa"] = "nonzero") =>
        /\ final_a3m.exists
        /\ OneRecord(final_a3m.body)
        /\ HasHeader(fasta) => final_a3m.body = FirstRecordA3m(fasta)

\* C6: when unpackdb fails, or succeeds and leaves no unpack directory or no
\* .a3m file in it, the artifact is the single-record file synthesized from
\* the input file and no error is raised by it.
ExportUndecodable ==
    \/ outcome["unpackdb"] = "nonzero"
    \/ outcome["unpackdb"] = "ok" /\ (~unpack_dir.exists \/ unpack_dir.files = {})

C6_ExportDegrades ==
    ExportUndecodable =>
        /\ a3m_written = "trivial"
        /\ final_a3m = File(write_trivial_a3m(fasta))
        /\ OneRecord(final_a3m.body)
        /\ pc \in {"hhsearch", "done", "failed"}
        /\ failed_at \in {"none", "hhsearch"}

C6_Witness ==
    /\ outcome["unpackdb"] = "ok"
    /\ unpack_dir.exists
    /\ unpack_dir.files = {}
    /\ pc = "done"

\* C7 as claimed: a run that took the single-sequence fallback exits zero and
\* logs the fallback.
C7_Original ==
    (a3m_written = "trivial" /\ Ended) =>
        /\ pc = "done"
        /\ "Writing trivial single-sequence A3M" \in logs

\* C7 as amended: a run that took the fallback logs it and is not ended by
\* the failure that caused it; it goes on to the template search and exits
\* zero exactly when hhsearch succeeds.
C7_DegradedRunsToTemplateSearch ==
    a3m_written = "trivial" =>
        /\ "Writing trivial single-sequence A3M" \in logs
        /\ pc \in {"hhsearch", "done", "failed"}
        /\ pc = "failed" => failed_at = "hhsearch"
        /\ Ended => (pc = "done" <=> outcome["hhsearch"] = "ok")

C7_Witness ==
    /\ a3m_written = "trivial"
    /\ outcome["result2msa"] = "nonzero"
    /\ pc = "done"

\* C8 as claimed: with no reference database at its path, the run aborts with
\* MissingDatabase before any staging call.
StagingCalled == Called("rmdb") \/ Called("createdb") \/ Called("search")

C11_PriorStagingReset ==
    running = "createdb" =>
        \A h \in Handles :
            <<h, "">> \in scratch =>
                \E i \in DOMAIN calls : calls[i] = call("rmdb", <<h>>)

\* the state right after safe_rmdb has returned for the handle of "stage"
Returned(stage) ==
    \/ stage = "rmdb_result" /\ pc = "rmdb_msa"
    \/ stage = "rmdb_msa" /\ pc = "rm_unpack"

ResetHandle(stage) == IF stage = "rmdb_result" THEN result_db ELSE msa_db

C13_TemplateSearchFatal ==
    /\ outcome["hhsearch"] \in {"nonzero", "oserror"} =>
          /\ pc = "failed" /\ failed_at = "hhsearch"
          /\ ~hhr_out
          /\ "Pipeline completed." \notin logs
    /\ CallCount("hhsearch") <= 1
    /\ pc = "done" => (outcome["hhsearch"] = "ok" /\ hhr_out)
    /\ LET n == Cardinality({i \in DOMAIN jack_calls : jack_calls[i] = "hhsearch"})
       IN  /\ n <= 1
           /\ n = 1 => jack_pc \in {"done", "failed"}
           /\ jack_pc = "failed" => jack_failed_at # "none"
           /\ jack_pc = "done" => (n = 1 /\ jack_failed_at = "none")

C13_Witness ==
    /\ outcome["hhsearch"] = "nonzero"
    /\ pc = "failed"
    /\ a3m_written = "copy"
    /\ jack_pc = "failed" /\ jack_failed_at = "hhsearch"

\* C14: when the directory alignments_root / target key does not exist, the
\* consumer fails with MissingAlignments, and a consumer that failed so has
\* started no inference process and prepared nothing; the only process a
\* consumer ever starts is the inference itself, on a directory that exists.
C14_MissingAlignmentsFailsFast ==
    /\ (gpu_target_align_dir # NoPath /\ gpu_target_align_dir \notin align_dirs) =>
          (gpu_pc = "failed" /\ gpu_failure = "MissingAlignments")
    /\ gpu_failure = "MissingAlignments" =>
          /\ gpu_pc = "failed"
          /\ gpu_calls = <<>> /\ ~gpu_running
          /\ fasta_dirs = {}
          /\ inference_inflight = 0
    /\ \A i \in DOMAIN gpu_calls :
          /\ gpu_calls[i].cmd = "run_pretrained_openfold"
          /\ gpu_target_align_dir \in align_dirs

C14_Witness ==
    /\ gpu_failure = "MissingAlignments"
    /\ root_exists
    /\ gpu_target_align_dir \notin align_dirs
    /\ jack_pc = "done"

\* the canonical order of the stages
Rank(cmd) ==
    CASE cmd = "createdb" -> 1
      [] cmd = "search" -> 2
      [] cmd = "result2msa" -> 3
      [] cmd = "unpackdb" -> 4
      [] cmd = "hhsearch" -> 5
      [] OTHER -> 0

\* the stage a call of the run belongs to
StageOf(c) ==
    IF c.cmd = "rmdb"
    THEN IF c.args = <<result_db>> THEN "rmdb_result" ELSE "rmdb_msa"
    ELSE c.cmd

\* the calls whose process has been started and has not ended
Unfinished == {i \in DOMAIN calls : outcome[StageOf(calls[i])] = "none"}

\* C15: the stage calls of a run are made in the order Ingest, Search,
\* Alignment Build, Export, Template Search, each at most once; every call
\* but the last has ended before the next is made, so at most one process
\* of the run is unfinished, and it is the one the run is blocked on.
C15_StagesInOrder ==
    /\ \A i, j \in DOMAIN calls :
          (i < j /\ Rank(calls[i].cmd) > 0 /\ Rank(calls[j].cmd) > 0) =>
              Rank(calls[i].cmd) < Rank(calls[j].cmd)
    /\ Unfinished \subseteq {Len(calls)}
    /\ Cardinality(Unfinished) <= 1
    /\ \A i \in DOMAIN calls :
          i \in Unfinished <=> running = StageOf(calls[i])
    /\ running # "none" => Unfinished # {}

C15_Witness ==
    /\ pc = "done"
    /\ \A cmd \in {"createdb", "search", "result2msa", "unpackdb", "hhsearch"} :
          CallCount(cmd) = 1
    /\ a3m_written = "copy"

\* C16: the producer's and the consumer's call of find_fasta_for_protein on
\* the same, unchanged fasta_root / protein_id return the same file, also
\* when the directory holds several files of one extension.
C16_ResolveDeterministic ==
    (jack_fasta_path # NoEntry /\ gpu_fasta_path # NoEntry) =>
        jack_fasta_path = gpu_fasta_path

\* the place of an extension in the priority order, 0 for any other
TierOf(ext) ==
    IF \E i \in DOMAIN EXTENSIONS : EXTENSIONS[i] = ext
    THEN CHOOSE i \in DOMAIN EXTENSIONS : EXTENSIONS[i] = ext
    ELSE 0

Candidates(t) == {f \in t.files : TierOf(f.ext) > 0}

\* the two-tier rule, for the file "found" of a call that has returned
\* (NoEntry when it raised)
TwoTier(t, found) ==
    IF t.kind = "file"
    THEN found \in t.files
    ELSE IF t.kind = "dir" /\ Candidates(t) # {}
    THEN /\ found \in Candidates(t)
         /\ \A g \in Candidates(t) : TierOf(found.ext) <= TierOf(g.ext)
    ELSE found = NoEntry

\* C17: find_fasta_for_protein returns root / identifier when it is a file;
\* otherwise, when it is a directory, a file of the first of the extensions
\* .fasta, .fa, .faa that matches any file; otherwise it fails with NotFound
\* (FileNotFoundError); and it leaves the file system as it was.
C17_TwoTierRule ==
    /\ [](/\ jack_pc # "main" =>
               /\ TwoTier(tree, jack_fasta_path)
               /\ jack_fasta_path = NoEntry =>
                     (jack_pc = "failed" /\ jack_failed_at = "find_fasta_for_protein")
          /\ (gpu_pc # "main" /\ gpu_failure # "alignments root not found") =>
               /\ TwoTier(tree, gpu_fasta_path)
               /\ gpu_fasta_path = NoEntry =>
                     (gpu_pc = "failed" /\ gpu_failure = "NotFound"))
    /\ [][tree' = tree]_vars

C17_Witness ==
    /\ tree.kind = "dir"
    /\ \E f \in tree.files : f.ext = "faa"
    /\ jack_fasta_path.ext = "fa"
    /\ gpu_fasta_path.ext = "fa"

\* the staging handle a call of the run creates or removes
StagingTargets(c) ==
    IF c.cmd = "rmdb" THEN {c.args[1]}
    ELSE IF c.cmd = "createdb" THEN {c.args[2]}
    ELSE IF c.cmd = "search" THEN {c.args[3]}
    ELSE IF c.cmd = "result2msa" THEN {c.args[4]}
    ELSE IF c.cmd = "unpackdb" THEN {c.args[2]}
    ELSE {}

DirOf(path) == path[1]

\* C18: every staging handle a run creates or removes lies in the scratch
\* directory and not in the directory of the reference database, and none
\* of these calls has the reference database path as its target.
C18_StagingApartFromReference ==
    \A i \in DOMAIN calls :
        \A t \in StagingTargets(calls[i]) :
            /\ DirOf(t) = tmp_dir
            /\ DirOf(t) # DirOf(uniref_db)
            /\ t # uniref_db

InvHandles(p) == {inv_query_db(p), inv_result_db(p), inv_msa_db(p)}

\* the staging databases invocation p is about to read
InvReads(p) ==
    IF inv_pc[p] = "search" THEN {inv_query_db(p)}
    ELSE IF inv_pc[p] = "result2msa" THEN {inv_query_db(p), inv_result_db(p)}
    ELSE IF inv_pc[p] = "unpackdb" THEN {inv_msa_db(p)}
    ELSE {}

\* C19: of two invocations on different targets and the same scratch
\* directory, each finds in the staging databases it is about to read the
\* data it wrote itself: under any interleaving the other invocation has
\* neither removed nor replaced them.
C19_DisjointStaging ==
    inv_target[1] # inv_target[2] =>
        \A p \in Invocations : \A h \in InvReads(p) :
            /\ <<h, p>> \in writer
            /\ ResultFiles(h) \subseteq scratch

\* str.upper on the letters of the alphabet
Upper(c) == IF c = "k" THEN "K" ELSE c

RECURSIVE UpperNoBlanks(_)
UpperNoBlanks(s) ==
    IF s = <<>> THEN <<>>
    ELSE IF Head(s) \in Whitespace THEN UpperNoBlanks(Tail(s))
    ELSE <<Upper(Head(s))>> \o UpperNoBlanks(Tail(s))

\* a file of one record: one header, with nothing but blanks before it
SingleRecord(text) ==
    /\ Cardinality(HeaderPositions(text)) = 1
    /\ \A j \in 1..(FirstHeader(text) - 1) : text[j] \in Whitespace

\* the raw sequence of a one-record file: all that follows the header line
RawSequence(text) ==
    SubSeq(text, LineEnd(text, FirstHeader(text)) + 1, Len(text))

\* C20: the fallback artifact written for a one-record input is the header
\* line and one sequence line that holds the record's raw sequence in upper
\* case and without any whitespace (for ">protein1\nMKTAYIAK" the lines
\* ">protein1" and "MKTAYIAK").
C20_FallbackUppercased ==
    (a3m_written = "trivial" /\ SingleRecord(fasta)) =>
        stripped(readlines(final_a3m.body)) =
            << <<">">> \o get_first_fasta_tag(fasta),
               UpperNoBlanks(RawSequence(fasta)) >>

\* the line the handler of a caught error of a stage logs
CaughtLine(stage) ==
    IF stage = "dbtype" THEN "WARNING: mmseqs dbtype failed"
    ELSE IF stage \in {"rmdb_result", "rmdb_msa"} THEN "WARNING: mmseqs rmdb failed"
    ELSE IF stage = "dbsize" THEN "WARNING: mmseqs dbsize failed"
    ELSE IF stage = "result2msa" THEN "ERROR in result2msa"
    ELSE "ERROR in unpackdb"

CaughtStages == {"dbtype", "rmdb_result", "rmdb_msa", "dbsize", "result2msa",
                 "unpackdb"}

\* C21: no caught error is swallowed silently: a probe, staging removal,
\* size check, Build or Export that exited nonzero has its line in the log,
\* and a removal of the old unpack directory that left the directory in
\* place has added a line to the log beyond the announcement of the removal.
C21_NoSilentError ==
    /\ [](\A stage \in CaughtStages :
             outcome[stage] = "nonzero" => CaughtLine(stage) \in logs)
    /\ [][(pc = "rm_unpack" /\ unpack_dir.exists /\ unpack_dir'.exists) =>
             logs' \ (logs \cup {"Removing old unpack dir"}) # {}]_vars

RmdbStages == {"rmdb_result", "rmdb_msa"}

\* the handle a removal stage resets
RmdbHandle(stage) == IF stage = "rmdb_result" THEN result_db ELSE msa_db

RmdbCalls(h) ==
    Cardinality({i \in DOMAIN calls :
                    calls[i].cmd = "rmdb" /\ calls[i].args = <<h>>})

\* C22: a staging removal that exited nonzero is not fatal: its warning is
\* logged, the call is not repeated, the run has left the stage without
\* failing at it, the removal of the alignment database still runs when its
\* files exist, and a run that has ended has called createdb.
C22_FailedRemovalNotFatal ==
    \A stage \in RmdbStages :
        outcome[stage] = "nonzero" =>
            /\ "WARNING: mmseqs rmdb failed" \in logs
            /\ RmdbCalls(RmdbHandle(stage)) = 1
            /\ pc # stage
            /\ failed_at # stage
            /\ (pc \in {"rm_unpack", "createdb"} /\ existing(msa_db) # {}) =>
                  outcome["rmdb_msa"] = "nonzero"
            /\ Ended => Called("createdb")

C22_Witness ==
    /\ outcome["rmdb_result"] = "nonzero"
    /\ outcome["rmdb_msa"] = "ok"
    /\ outcome["createdb"] = "ok"
    /\ pc = "done"

\* the errors after which run_mmseqs takes the fallback
FallbackErrors == {"ERROR in result2msa", "ERROR in unpackdb",
                   "ERROR: unpack dir does not exist",
                   "ERROR: no .a3m files found"}

\* the size check has no part in the course of the run: once it has ended,
\* the run has left it without failing at it, Alignment Build is the next
\* stage, and a fallback artifact has one of the fallback's own errors
DepthCheckObservabilityOnly ==
    outcome["dbsize"] # "none" =>
        /\ pc # "dbsize"
        /\ failed_at # "dbsize"
        /\ pc = "result2msa" \/ Called("result2msa")
        /\ a3m_written = "trivial" => logs \cap FallbackErrors # {}

\* C23 as claimed: the size check is called after Alignment Build (result2msa)
\* on the alignment database, and it is observability-only.
C23_Original ==
    /\ \A i \in DOMAIN calls :
          calls[i].cmd = "dbsize" =>
              /\ calls[i].args = <<msa_db>>
              /\ \E j \in 1..(i - 1) : calls[j].cmd = "result2msa"
    /\ DepthCheckObservabilityOnly

\* C23 as amended: the size check is called right after a Search that
\* succeeded, on the result database and before Alignment Build, and it is
\* observability-only.
C23_DepthCheckAfterSearch ==
    /\ \A i \in DOMAIN calls :
          calls[i].cmd = "dbsize" =>
              /\ calls[i].args = <<result_db>>
              /\ i > 1 /\ calls[i - 1].cmd = "search"
              /\ outcome["search"] = "ok"
              /\ \A j \in 1..(i - 1) : calls[j].cmd # "result2msa"
    /\ DepthCheckObservabilityOnly

C23_Witness ==
    /\ outcome["dbsize"] = "nonzero"
    /\ a3m_written = "copy"
    /\ pc = "done"

\* C24: after a producer run has ended, the artifact directory exists only
\* if it holds the Alignment Artifact, and a consumer invoked after a run
\* that failed at Ingest or Search fails with MissingAlignments.
C24_ArtifactDirHoldsArtifact ==
    /\ (Ended /\ target_align_dir \in align_dirs) => final_a3m.exists
    /\ failed_at \in {"createdb", "search"} =>
          gpu_pc = "main" \/ gpu_failure = "MissingAlignments"

\* the run took the fallback: Build or Export failed, or Export left nothing
Degraded ==
    \/ outcome["result2msa"] = "nonzero"
    \/ outcome["unpackdb"] = "nonzero"
    \/ outcome["unpackdb"] = "ok" /\ (~unpack_dir.exists \/ unpack_dir.files = {})

\* C25: every external call exiting, a run whose Ingest and Search succeeded
\* eventually calls Template Search, it calls it at most once, and when it
\* calls it the final Alignment Artifact has been written by this run: on
\* the full path the copy of the file taken from the export directory, on
\* the degraded path the synthesized single record.
C25_TemplateSearchEventuallyOnce ==
    /\ (outcome["createdb"] = "ok" /\ outcome["search"] = "ok")
          ~> Called("hhsearch")
    /\ [](CallCount("hhsearch") <= 1)
    /\ [](Called("hhsearch") =>
             /\ outcome["createdb"] = "ok" /\ outcome["search"] = "ok"
             /\ final_a3m.exists
             /\ a3m_written = (IF Degraded THEN "trivial" ELSE "copy")
             /\ a3m_written = "trivial" =>
                   final_a3m.body = write_trivial_a3m(fasta)
             /\ a3m_written = "copy" =>
                   final_a3m.body = first_a3m(unpack_dir).body)

C25_Witness ==
    /\ outcome["result2msa"] = "nonzero"
    /\ Called("hhsearch")
    /\ pc = "done"

\* C26: on the non-degraded path the file copied into the final Alignment
\* Artifact was written by the Export of this run, never by an earlier run.
C26_ArtifactFromThisExport ==
    a3m_written = "copy" =>
        /\ ~first_a3m(unpack_dir).prior
        /\ final_a3m.body = EXPORTED

\* C27: the key of the fallback artifact is the key of the input file:
\* get_first_fasta_tag of the text write_trivial_a3m wrote equals
\* get_first_fasta_tag of the input, "query" for an input without header.
C27_KeyRoundTrip ==
    a3m_written = "trivial" =>
        /\ get_first_fasta_tag(final_a3m.body) = get_first_fasta_tag(fasta)
        /\ ~HasHeader(fasta) => get_first_fasta_tag(final_a3m.body) = QUERY

C27_Witness ==
    /\ a3m_written = "trivial"
    /\ HasHeader(fasta)
    /\ get_first_fasta_tag(fasta) # QUERY
    /\ HeaderX(fasta) # get_first_fasta_tag(fasta)

\* the files of the directory an inference call was given
PerProteinFiles(c) == {f \in fasta_dirs : f[1] = c.args[1]}

\* C28: the per-target sequence directory passed to the inference process
\* holds exactly one file, the one resolved for this invocation.
C28_OneSequenceFile ==
    \A i \in DOMAIN gpu_calls :
        PerProteinFiles(gpu_calls[i]) =
            {<<gpu_calls[i].args[1], file_name(gpu_fasta_path)>>}

\* C29: the in-flight gauge is balanced: it is one while the inference
\* process runs and zero whenever none runs, whether the call has not been
\* made, could not be started, or exited with any status; a check that
\* failed before the inference left it unchanged.
C29_InflightBalanced ==
    /\ inference_inflight = (IF gpu_running THEN 1 ELSE 0)
    /\ gpu_failure \in {"alignments root not found", "NotFound",
                        "MissingAlignments", "checkpoint not found"} =>
          inference_inflight = 0 /\ gpu_calls = <<>>

====
